---- MODULE Spec2Model ----
(***************************************************************************)
(* Model of the WhatsApp bot's reminder engine (reminder service, reminder *)
(* data model, scheduler and reminder controller) and of its AI router     *)
(* (engine registry, user preferences, ai_service.sendMessage).            *)
(*                                                                         *)
(* The process is single-threaded and event driven: every async function   *)
(* is cut at its awaits, one action per piece between two awaits.          *)
(***************************************************************************)
EXTENDS Integers, Sequences, FiniteSets, Bags, TLC

(* ---------------------------- bounds ----------------------------------- *)
MaxTime == 1          \* instants are 0..MaxTime
MaxReminders == 1     \* rows ever inserted (AUTOINCREMENT ids 1..MaxReminders)
MaxTasks == 2         \* async deliveries in flight at the same time
MaxAttempts == 2      \* the counter of client.sendMessage calls saturates here
MaxSchedules == 1     \* node-schedule one-shot jobs ever created
MaxRestarts == 1      \* process restarts
MaxAccesses == 2      \* getUserPreferences executions of one user in flight
MaxStored == 3        \* reminders in the database a process starts on
MaxJobs == 2          \* calls of scheduler.scheduleJob
MaxWords == 2         \* words of a message body

(* ---------------------------- values ----------------------------------- *)
Users == {"u1", "u2"}
Chats == {"chat1"}
Contents == {"call mom"}
Times == 0..MaxTime
NoVal == "<none>"     \* JavaScript null / undefined / missing string
NoTime == -1          \* a reminder object without time
InvalidDate == -2     \* a Date object holding no instant (Invalid Date)
Ids == 1..MaxReminders

VARIABLES
    now,            \* wall clock (new Date())
    reminders,      \* table reminders: id -> row
    nextId,         \* AUTOINCREMENT counter of the table
    scheduledJobs,  \* scheduler's Map: reminder id -> handle of the job
    timers,         \* node-schedule one-shot jobs not yet fired or cancelled
    nextTok,        \* next job handle
    tasks,          \* async executions in flight (a bag)
    startupPending, \* the setTimeout(5000) of initReminderService has not run
    restarts,       \* number of process restarts so far
    attempts,       \* per reminder id: calls of client.sendMessage made
    errors,         \* per reminder id: a send error was logged
    last,           \* the latest remove request and its outcome
    env,            \* engines whose credential variable is set
    prefs,          \* table user_preferences: its rows
    lastCall,       \* outcome of the latest ai_service.sendMessage
    lastAux,        \* how the latest AI request went (rows read, calls made)
    selecting,      \* per user: getUserPreferences executions between their
                    \* SELECT (no row found) and their INSERT
    lastCreate,     \* the latest createReminder: its argument and its result
    listed,         \* the latest getUserReminders: its argument and its result
    handled         \* the latest message event: the message and what was done

remVars == <<now, reminders, nextId, scheduledJobs, timers, nextTok, tasks,
             startupPending, restarts, attempts, errors, last>>
aiVars == <<env, prefs, lastCall, lastAux, selecting>>
obsVars == <<lastCreate, listed, handled>>
vars == <<now, reminders, nextId, scheduledJobs, timers, nextTok, tasks,
          startupPending, restarts, attempts, errors, last,
          env, prefs, lastCall, lastAux, selecting, lastCreate, listed,
          handled>>

(* ------------------------- helpers ------------------------------------- *)
Min(a, b) == IF a < b THEN a ELSE b

\* property access on a JavaScript object: a missing property is undefined
JsField(obj, f) == IF f \in DOMAIN obj THEN obj[f] ELSE NoVal

\* remove key k from the function m
MapDelete(m, k) == [x \in (DOMAIN m) \ {k} |-> m[x]]

\* add or overwrite key k of the function m
MapSet(m, k, v) == [x \in (DOMAIN m) \cup {k} |-> IF x = k THEN v ELSE m[x]]

\* the rows of the ids in S, ORDER BY trigger_time ASC (rowid order among
\* equals)
RECURSIVE OrderByTriggerTime(_)
OrderByTriggerTime(S) ==
    IF S = {} THEN <<>>
    ELSE LET m == CHOOSE i \in S : \A j \in S :
                     \/ reminders[i].trigger_time < reminders[j].trigger_time
                     \/ /\ reminders[i].trigger_time = reminders[j].trigger_time
                        /\ i <= j
         IN <<reminders[m]>> \o OrderByTriggerTime(S \ {m})

(* ------------------------- data layer ---------------------------------- *)
\* getPendingReminders with the comparison trigger_time = ? for <=
getPendingRemindersExactlyNow ==
    OrderByTriggerTime({i \in DOMAIN reminders :
                           /\ reminders[i].trigger_time = now
                           /\ ~reminders[i].is_triggered})

\* getPendingReminders without the condition on trigger_time
getPendingRemindersAnyTime ==
    OrderByTriggerTime({i \in DOMAIN reminders : ~reminders[i].is_triggered})

\* reminder model, getPendingReminders: due and untriggered, oldest first
getPendingReminders ==
    OrderByTriggerTime({i \in DOMAIN reminders :
                           /\ reminders[i].trigger_time <= now
                           /\ ~reminders[i].is_triggered})

\* reminder model, getReminderById: the rows SELECT ... WHERE id = ? yields
\* (database.get hands back the first of them, or undefined for none)
getReminderById(id) == IF id \in DOMAIN reminders THEN <<reminders[id]>> ELSE <<>>

\* removeReminder without the AND user_id = ?
RemoveMatchesAnyOwner(id, userId) == {i \in DOMAIN reminders : i = id}

\* reminder model, removeReminder: ids of the rows the DELETE matches
RemoveMatches(id, userId) ==
    {i \in DOMAIN reminders :
        /\ i = id
        /\ (userId # NoVal => reminders[i].user_id = userId)}

\* markReminderAsTriggered with SET is_triggered = NOT is_triggered
markReminderToggles(id) ==
    IF id \in DOMAIN reminders
    THEN [reminders EXCEPT ![id].is_triggered = ~@]
    ELSE reminders

\* reminder model, markReminderAsTriggered: the table after the UPDATE
markReminderAsTriggered(id) ==
    IF id \in DOMAIN reminders
    THEN [reminders EXCEPT ![id].is_triggered = TRUE]
    ELSE reminders

\* createReminder with VALUES (?, ?, ?, ?, 1, ?)
NewRowTriggered(id, userId, chatId, content, time) ==
    [id |-> id, user_id |-> userId, chat_id |-> chatId, content |-> content,
     trigger_time |-> time, is_triggered |-> TRUE]

\* reminder model, createReminder: the row the INSERT writes
NewRow(id, userId, chatId, content, time) ==
    [id |-> id, user_id |-> userId, chat_id |-> chatId, content |-> content,
     trigger_time |-> time, is_triggered |-> FALSE]

(* ------------------------- scheduler ----------------------------------- *)
\* scheduler.cancelJob: cancel the job registered under jobId and forget it;
\* the pair <<map, live timers>> after the call
cancelJob(jobs, live, jobId) ==
    IF jobId \in DOMAIN jobs
    THEN <<MapDelete(jobs, jobId), {t \in live : t.tok # jobs[jobId]}>>
    ELSE <<jobs, live>>

\* scheduler.cancelAllJobs
cancelAllJobs == <<[x \in {} |-> 0], {}>>

(* ------------------------- async executions ---------------------------- *)
\* what a delivery holds of the row it was given
Snapshot(row) == [id |-> row.id, chat_id |-> row.chat_id,
                  content |-> row.content, trigger_time |-> row.trigger_time]

RECURSIVE Snapshots(_)
Snapshots(rows) ==
    IF rows = <<>> THEN <<>> ELSE <<Snapshot(Head(rows))>> \o Snapshots(Tail(rows))

\* an async execution starts if the bound on executions in flight allows it
CanStart == BagCardinality(tasks) < MaxTasks
Started(t) == tasks (+) SetToBag({t})
Ended(t) == tasks (-) SetToBag({t})
Running == BagToSet(tasks)

\* what follows the return of sendReminderNotification in the execution t:
\* a sweep goes on with its next row, a timer callback reaches the finally of
\* scheduleJob (scheduledJobs.delete(jobId)), an immediate send is over
AfterDelivery(t) ==
    IF t.kind = "sweep" /\ Len(t.queue) > 1
    THEN /\ tasks' = Ended(t) (+) SetToBag({[t EXCEPT !.pc = "send",
                                                      !.queue = Tail(t.queue)]})
         /\ UNCHANGED scheduledJobs
    ELSE /\ tasks' = Ended(t)
         /\ scheduledJobs' = IF t.kind = "timer"
                             THEN MapDelete(scheduledJobs, Head(t.queue).id)
                             ELSE scheduledJobs

\* sendReminderNotification, first part: client.sendMessage resolves
SendOk(t) ==
    /\ t.pc = "send"
    /\ LET id == Head(t.queue).id
       IN attempts' = [attempts EXCEPT ![id] = Min(@ + 1, MaxAttempts)]
    /\ tasks' = Ended(t) (+) SetToBag({[t EXCEPT !.pc = "mark"]})
    /\ UNCHANGED <<now, reminders, nextId, scheduledJobs, timers, nextTok,
                   startupPending, restarts, errors, last>>
    /\ UNCHANGED <<aiVars, obsVars>>

\* sendReminderNotification marking the reminder in its catch as well
SendFailMarks(t) ==
    /\ t.pc = "send"
    /\ LET id == Head(t.queue).id
       IN /\ attempts' = [attempts EXCEPT ![id] = Min(@ + 1, MaxAttempts)]
          /\ errors' = [errors EXCEPT ![id] = TRUE]
          /\ reminders' = markReminderAsTriggered(id)
    /\ AfterDelivery(t)
    /\ UNCHANGED <<now, nextId, timers, nextTok, startupPending, restarts, last>>
    /\ UNCHANGED <<aiVars, obsVars>>

\* a send error that ends the whole pass
SendFailStops(t) ==
    /\ t.pc = "send"
    /\ LET id == Head(t.queue).id
       IN /\ attempts' = [attempts EXCEPT ![id] = Min(@ + 1, MaxAttempts)]
          /\ errors' = [errors EXCEPT ![id] = TRUE]
    /\ tasks' = Ended(t)
    /\ scheduledJobs' = IF t.kind = "timer"
                        THEN MapDelete(scheduledJobs, Head(t.queue).id)
                        ELSE scheduledJobs
    /\ UNCHANGED <<now, reminders, nextId, timers, nextTok, startupPending,
                   restarts, last>>
    /\ UNCHANGED <<aiVars, obsVars>>

\* sendReminderNotification, first part: client.sendMessage throws; the catch
\* logs the error and returns false
SendFail(t) ==
    /\ t.pc = "send"
    /\ LET id == Head(t.queue).id
       IN /\ attempts' = [attempts EXCEPT ![id] = Min(@ + 1, MaxAttempts)]
          /\ errors' = [errors EXCEPT ![id] = TRUE]
    /\ AfterDelivery(t)
    /\ UNCHANGED <<now, reminders, nextId, timers, nextTok, startupPending,
                   restarts, last>>
    /\ UNCHANGED <<aiVars, obsVars>>

\* sendReminderNotification, second part: markReminderAsTriggered, return true
Mark(t) ==
    /\ t.pc = "mark"
    /\ reminders' = markReminderAsTriggered(Head(t.queue).id)
    /\ AfterDelivery(t)
    /\ UNCHANGED <<now, nextId, timers, nextTok, startupPending, restarts,
                   attempts, errors, last>>
    /\ UNCHANGED <<aiVars, obsVars>>

\* checkPendingReminders delivering the oldest due reminder only
checkPendingRemindersFirstOnly ==
    LET pendingReminders == getPendingReminders
    IN IF Len(pendingReminders) = 0
       THEN UNCHANGED tasks
       ELSE /\ CanStart
            /\ tasks' = Started([kind |-> "sweep", pc |-> "send",
                                 queue |-> Snapshots(<<Head(pendingReminders)>>)])

\* checkPendingReminders up to its first send: read the due rows and, if
\* there are any, start delivering them one after the other
checkPendingReminders ==
    LET pendingReminders == getPendingReminders
    IN IF Len(pendingReminders) = 0
       THEN UNCHANGED tasks
       ELSE /\ CanStart
            /\ tasks' = Started([kind |-> "sweep", pc |-> "send",
                                 queue |-> Snapshots(pendingReminders)])

\* the recurring job 'reminder_check' of initReminderService fires
SweepTick ==
    /\ checkPendingReminders
    /\ UNCHANGED <<now, reminders, nextId, scheduledJobs, timers, nextTok,
                   startupPending, restarts, attempts, errors, last>>
    /\ UNCHANGED <<aiVars, obsVars>>

\* the setTimeout of initReminderService fires: the check at startup
StartupCheck ==
    /\ startupPending
    /\ startupPending' = FALSE
    /\ checkPendingReminders
    /\ UNCHANGED <<now, reminders, nextId, scheduledJobs, timers, nextTok,
                   restarts, attempts, errors, last>>
    /\ UNCHANGED <<aiVars, obsVars>>

\* node-schedule runs the one-shot job j at or after its date: the wrapper of
\* scheduleJob calls the callback, which calls sendReminderNotification
TimerFire(j) ==
    /\ j \in timers
    /\ now >= j.date
    /\ CanStart
    /\ timers' = timers \ {j}
    /\ tasks' = Started([kind |-> "timer", pc |-> "send",
                         queue |-> <<j.reminder>>])
    /\ UNCHANGED <<now, reminders, nextId, scheduledJobs, nextTok,
                   startupPending, restarts, attempts, errors, last>>
    /\ UNCHANGED <<aiVars, obsVars>>

\* scheduleReminderNotification registering a job whatever the trigger time
scheduleReminderNotificationTimerOnly(id) ==
    /\ id \in DOMAIN reminders
    /\ nextTok <= MaxSchedules
    /\ LET c == cancelJob(scheduledJobs, timers, id)
       IN /\ scheduledJobs' = MapSet(c[1], id, nextTok)
          /\ timers' = c[2] \cup {[tok |-> nextTok,
                                   reminder |-> Snapshot(reminders[id]),
                                   date |-> reminders[id].trigger_time]}
    /\ nextTok' = nextTok + 1
    /\ UNCHANGED <<now, reminders, nextId, startupPending, restarts, attempts,
                   errors, last, tasks>>
    /\ UNCHANGED <<aiVars, obsVars>>

\* scheduleReminderNotification(client, reminder) for the row of id as read
\* from the table: send now when it is due, else register a one-shot job
scheduleReminderNotification(id) ==
    /\ id \in DOMAIN reminders
    /\ IF reminders[id].trigger_time <= now
       THEN /\ CanStart
            /\ tasks' = Started([kind |-> "immediate", pc |-> "send",
                                 queue |-> <<Snapshot(reminders[id])>>])
            /\ UNCHANGED <<scheduledJobs, timers, nextTok>>
       ELSE /\ nextTok <= MaxSchedules
            /\ LET c == cancelJob(scheduledJobs, timers, id)
               IN /\ scheduledJobs' = MapSet(c[1], id, nextTok)
                  /\ timers' = c[2] \cup {[tok |-> nextTok,
                                           reminder |-> Snapshot(reminders[id]),
                                           date |-> reminders[id].trigger_time]}
            /\ nextTok' = nextTok + 1
            /\ UNCHANGED tasks
    /\ UNCHANGED <<now, reminders, nextId, startupPending, restarts, attempts,
                   errors, last>>
    /\ UNCHANGED <<aiVars, obsVars>>

(* ------------------------- requests ------------------------------------ *)
\* time passes
Tick ==
    /\ now < MaxTime
    /\ now' = now + 1
    /\ UNCHANGED <<reminders, nextId, scheduledJobs, timers, nextTok, tasks,
                   startupPending, restarts, attempts, errors, last>>
    /\ UNCHANGED <<aiVars, obsVars>>

\* Date.prototype.toISOString: the instant in the fixed-width ISO form (which
\* sorts as the instants do); on an Invalid Date it throws a RangeError
Throws == -3
toISOString(time) == IF time = InvalidDate THEN Throws ELSE time

\* reminder service createReminder(reminder) over the model's createReminder:
\* what the call does to the table, and its result: the id of the new row, or
\* null (0) for invalid data or a failed INSERT
CreateEffect(userId, chatId, content, time) ==
    LET valid == ~(userId = NoVal \/ chatId = NoVal \/ content = NoVal
                     \/ time = NoTime)
        triggerTime == toISOString(time)
        stored == valid /\ triggerTime # Throws
    IN /\ nextId <= MaxReminders
       /\ IF ~stored
          THEN UNCHANGED <<reminders, nextId, attempts, errors>>
          ELSE /\ reminders' = MapSet(reminders, nextId,
                                      NewRow(nextId, userId, chatId, content,
                                             triggerTime))
               /\ nextId' = nextId + 1
               /\ attempts' = MapSet(attempts, nextId, 0)
               /\ errors' = MapSet(errors, nextId, FALSE)
       /\ lastCreate' = [userId |-> userId, chatId |-> chatId,
                         content |-> content, time |-> time, at |-> now,
                         reminderId |-> IF stored THEN nextId ELSE 0]

\* a call of the reminder service's createReminder
createReminder(userId, chatId, content, time) ==
    /\ CreateEffect(userId, chatId, content, time)
    /\ UNCHANGED <<now, scheduledJobs, timers, nextTok, tasks, startupPending,
                   restarts, last, listed, handled>>
    /\ UNCHANGED aiVars

\* getUserReminders without the condition on is_triggered
getUserRemindersWithTriggered(userId) ==
    OrderByTriggerTime({i \in DOMAIN reminders : reminders[i].user_id = userId})

\* reminder model, getUserReminders: the user's untriggered rows, ORDER BY
\* trigger_time ASC
getUserReminders(userId) ==
    OrderByTriggerTime({i \in DOMAIN reminders :
                           /\ reminders[i].user_id = userId
                           /\ ~reminders[i].is_triggered})

\* reminder controller handleListRemindersCommand(client, msg, userId): the
\* list the service's getUserReminders hands back
handleListRemindersCommand(userId) ==
    /\ listed' = [userId |-> userId, reminders |-> getUserReminders(userId)]
    /\ UNCHANGED <<lastCreate, handled>>
    /\ UNCHANGED <<remVars, aiVars>>

\* the owner of the row reminderId before a request, if there is such a row
OwnerOf(reminderId) ==
    IF reminderId \in DOMAIN reminders THEN reminders[reminderId].user_id ELSE NoVal

\* the row reminderId is after the step what it was before it
Kept(reminderId) ==
    reminderId \in DOMAIN reminders =>
        /\ reminderId \in DOMAIN reminders'
        /\ reminders'[reminderId] = reminders[reminderId]

\* reminder service removeReminder(reminderId, userId) over the model's
\* removeReminder: true iff the DELETE removed a row
removeReminder(reminderId, userId) ==
    LET gone == IF reminderId = 0 THEN {} ELSE RemoveMatches(reminderId, userId)
    IN /\ reminders' = [i \in (DOMAIN reminders) \ gone |-> reminders[i]]
       /\ last' = [op |-> "remove", requester |-> userId, id |-> reminderId,
                   owner |-> OwnerOf(reminderId), ok |-> gone # {},
                   kept |-> Kept(reminderId), reply |-> NoVal]
       /\ UNCHANGED <<now, nextId, scheduledJobs, timers, nextTok, tasks,
                      startupPending, restarts, attempts, errors>>
       /\ UNCHANGED <<aiVars, obsVars>>

\* reminder controller handleRemoveReminderCommand(client, msg, userId,
\* reminderId): the reply sent and the table afterwards
handleRemoveReminderCommand(userId, reminderId) ==
    LET reminder == getReminderById(reminderId)
        gone == RemoveMatches(reminderId, NoVal)
        reply == IF reminderId = 0 THEN "usage"
                 ELSE IF reminder = <<>> THEN "notfound"
                 ELSE IF JsField(reminder[1], "userId") # userId THEN "denied"
                 ELSE IF gone # {} THEN "removed"
                 ELSE "error"
    IN /\ reminders' = IF reply = "removed"
                       THEN [i \in (DOMAIN reminders) \ gone |-> reminders[i]]
                       ELSE reminders
       /\ last' = [op |-> "rmrem", requester |-> userId, id |-> reminderId,
                   owner |-> OwnerOf(reminderId), ok |-> reply = "removed",
                   kept |-> Kept(reminderId), reply |-> reply]
       /\ UNCHANGED <<now, nextId, scheduledJobs, timers, nextTok, tasks,
                      startupPending, restarts, attempts, errors>>
       /\ UNCHANGED <<aiVars, obsVars>>

\* the process stops and starts again: only the tables survive; handleReady
\* runs initScheduler (cancelAllJobs) and initReminderService
Restart ==
    /\ restarts < MaxRestarts
    /\ restarts' = restarts + 1
    /\ scheduledJobs' = cancelAllJobs[1]
    /\ timers' = cancelAllJobs[2]
    /\ tasks' = EmptyBag
    /\ startupPending' = TRUE
    /\ UNCHANGED <<now, reminders, nextId, nextTok, attempts, errors, last>>
    /\ UNCHANGED <<aiVars, obsVars>>

\* scheduler.scheduleJob(jobId, date, callback) with a date in the future, the
\* callback being the delivery of the reminder jobId (scheduleReminder):
\* cancelJob(jobId), then the new job is registered under jobId
scheduleJob(jobId, date) ==
    /\ jobId \in DOMAIN reminders
    /\ date > now
    /\ nextTok <= MaxJobs
    /\ LET c == cancelJob(scheduledJobs, timers, jobId)
       IN /\ scheduledJobs' = MapSet(c[1], jobId, nextTok)
          /\ timers' = c[2] \cup {[tok |-> nextTok,
                                   reminder |-> Snapshot(reminders[jobId]),
                                   date |-> date]}
    /\ nextTok' = nextTok + 1
    /\ UNCHANGED <<now, reminders, nextId, tasks, startupPending, restarts,
                   attempts, errors, last>>
    /\ UNCHANGED <<aiVars, obsVars>>

\* a call of scheduler.cancelJob(jobId)
CancelJob(jobId) ==
    /\ scheduledJobs' = cancelJob(scheduledJobs, timers, jobId)[1]
    /\ timers' = cancelJob(scheduledJobs, timers, jobId)[2]
    /\ UNCHANGED <<now, reminders, nextId, nextTok, tasks, startupPending,
                   restarts, attempts, errors, last>>
    /\ UNCHANGED <<aiVars, obsVars>>

(* ------------------------- engine registry ----------------------------- *)
\* config/engines.js, ENGINES, in declaration order
ENGINES ==
    << [name |-> "openai", envKey |-> "OPENAI_API_KEY",
        defaultModel |-> "gpt-4o",
        models |-> <<"gpt-4o", "gpt-3.5-turbo", "gpt-4-turbo">>],
       [name |-> "anthropic", envKey |-> "ANTHROPIC_API_KEY",
        defaultModel |-> "claude-3-opus",
        models |-> <<"claude-3-opus", "claude-3-sonnet", "claude-3-haiku">>],
       [name |-> "gemini", envKey |-> "GEMINI_API_KEY",
        defaultModel |-> "gemini-pro",
        models |-> <<"gemini-pro", "gemini-pro-vision">>],
       [name |-> "deepseek", envKey |-> "DEEPSEEK_API_KEY",
        defaultModel |-> "deepseek-chat",
        models |-> <<"deepseek-chat", "deepseek-coder">>] >>

\* config.DEFAULTS
DEFAULTS == [engine |-> "openai", model |-> "gpt-4o"]

EnvKeys == {ENGINES[i].envKey : i \in DOMAIN ENGINES}

\* ENGINES[engineName]: the positions of the registry that carry that key
EngineIndex(engineName) == {i \in DOMAIN ENGINES : ENGINES[i].name = engineName}

EngineConfig(engineName) == ENGINES[CHOOSE i \in EngineIndex(engineName) : TRUE]

\* String.prototype.toLowerCase on the names the model feeds it
ToLowerCase(str) ==
    CASE str = "OpenAI" -> "openai"
      [] str = "Anthropic" -> "anthropic"
      [] str = "GPT-4o" -> "gpt-4o"
      [] str = "Hey Bot" -> "hey bot"
      [] OTHER -> str

\* getAvailableEngines with the keys in alphabetical order
getAvailableEnginesSorted ==
    LET Available(e) == e.envKey \in env
        sorted == <<ENGINES[2], ENGINES[4], ENGINES[3], ENGINES[1]>>
        kept == SelectSeq(sorted, Available)
    IN [i \in DOMAIN kept |-> kept[i].name]

\* engines.getAvailableEngines: Object.keys of the result, in insertion order
getAvailableEngines ==
    LET Available(e) == e.envKey \in env
        kept == SelectSeq(ENGINES, Available)
    IN [i \in DOMAIN kept |-> kept[i].name]

\* isEngineAvailable without the test of the credential
isEngineAvailableRegistered(engineName) == EngineIndex(engineName) # {}

\* engines.isEngineAvailable
isEngineAvailable(engineName) ==
    /\ EngineIndex(engineName) # {}
    /\ EngineConfig(engineName).envKey \in env

\* isModelAvailable without the test of the list
isModelAvailableAnyModel(engineName, modelName) == isEngineAvailable(engineName)

\* engines.isModelAvailable
isModelAvailable(engineName, modelName) ==
    /\ isEngineAvailable(engineName)
    /\ \E k \in DOMAIN EngineConfig(engineName).models :
          EngineConfig(engineName).models[k] = modelName

\* getDefaultModel without the test of availability
getDefaultModelAlways(engineName) ==
    IF EngineIndex(engineName) = {} THEN NoVal
    ELSE EngineConfig(engineName).defaultModel

\* engines.getDefaultModel
getDefaultModel(engineName) ==
    IF ~isEngineAvailable(engineName) THEN NoVal
    ELSE EngineConfig(engineName).defaultModel

\* ai_service getAIService: the adapter module chosen for an engine name
getAIService(engineName) ==
    CASE ToLowerCase(engineName) = "openai" -> "openaiService"
      [] ToLowerCase(engineName) = "anthropic" -> "anthropicService"
      [] ToLowerCase(engineName) = "gemini" -> "geminiService"
      [] ToLowerCase(engineName) = "deepseek" -> "deepseekService"
      [] OTHER -> "openaiService"

(* ------------------------- user preferences ----------------------------- *)
\* a || b of JavaScript on strings
JsOr(a, b) == IF a = NoVal \/ a = "" THEN b ELSE a

\* the rows of a table user_preferences whose user_id is userId
UserRows(table, userId) == {r \in table : r.user_id = userId}

\* database.get('SELECT * FROM user_preferences WHERE user_id = ?'): the first
\* matching row, or undefined (the empty sequence) when there is none
SelectPrefs(table, userId) ==
    IF UserRows(table, userId) = {} THEN <<>>
    ELSE <<CHOOSE r \in UserRows(table, userId) :
               \A q \in UserRows(table, userId) : r.id <= q.id>>

\* the INSERT on a table whose column user_id is not UNIQUE
InsertPrefsNoUnique(table, userId, engine, model) ==
    table \cup {[id |-> Cardinality(table) + 1, user_id |-> userId,
                 engine |-> engine, model |-> model]}

\* database.run('INSERT INTO user_preferences (user_id, engine, model) ...'):
\* the table afterwards. user_id is UNIQUE: with a row of that user present the
\* statement fails (the caller's catch takes over) and the table is unchanged.
InsertPrefs(table, userId, engine, model) ==
    IF UserRows(table, userId) # {} THEN table
    ELSE table \cup {[id |-> Cardinality(table) + 1, user_id |-> userId,
                      engine |-> engine, model |-> model]}

\* the object getUserPreferences returns when it has found no row: after its
\* INSERT, or from its catch when the INSERT failed (no id in either)
DefaultPrefs(userId) ==
    [user_id |-> userId, engine |-> DEFAULTS.engine, model |-> DEFAULTS.model]

\* user_preferences getUserPreferences: the table afterwards (a default row is
\* inserted for a user without one)
PrefsAfterGet(userId) ==
    IF SelectPrefs(prefs, userId) # <<>> THEN prefs
    ELSE InsertPrefs(prefs, userId, DEFAULTS.engine, DEFAULTS.model)

\* user_preferences getUserPreferences on a table other than the current one:
\* the object returned (the stored row, or an object without id)
ReadFrom(table, userId) ==
    IF SelectPrefs(table, userId) # <<>> THEN SelectPrefs(table, userId)[1]
    ELSE DefaultPrefs(userId)

\* user_preferences getUserPreferences: the object returned
getUserPreferences(userId) == ReadFrom(prefs, userId)

\* if (existingPrefs.id): the object read carries a (non-zero) row id
HasId(read) == "id" \in DOMAIN read /\ read.id # 0

\* user_preferences setUserEngine after its getUserPreferences returned read:
\* the table afterwards. Without an id in the object read, the INSERT meets the
\* row getUserPreferences has just created, fails, and the engine is not
\* stored.
setUserEngine(table, read, userId, engine) ==
    IF HasId(read)
    THEN {IF r.user_id = userId THEN [r EXCEPT !.engine = engine] ELSE r :
             r \in table}
    ELSE InsertPrefs(table, userId, engine, DEFAULTS.model)

\* user_preferences setUserModel: the table afterwards, likewise
setUserModel(table, read, userId, model) ==
    IF HasId(read)
    THEN {IF r.user_id = userId THEN [r EXCEPT !.model = model] ELSE r :
             r \in table}
    ELSE InsertPrefs(table, userId, DEFAULTS.engine, model)

NoCall == [user |-> NoVal, engine |-> NoVal, prefModel |-> NoVal,
           status |-> NoVal, service |-> NoVal, model |-> NoVal]

\* an answer of the OpenAI API that nobody has asked for
NoAnswer == [kind |-> NoVal, time |-> NoTime, content |-> NoVal,
             needsSearch |-> NoVal]

NoAux == [op |-> NoVal, user |-> NoVal, arg |-> NoVal, input |-> NoAnswer,
          access |-> NoVal, calls |-> <<>>, result |-> NoVal,
          extracted |-> NoVal, reply |-> NoVal]

\* lastCall and lastAux describe the latest request to the router only as long as
\* nothing else has happened to the preferences since
Forget == lastCall' = NoCall /\ lastAux' = NoAux

\* A getUserPreferences whose SELECT finds no row: the execution waits for its
\* INSERT. Any of the callers below may be the one that goes on from there.
getUserPreferencesSelect(userId) ==
    /\ SelectPrefs(prefs, userId) = <<>>
    /\ selecting[userId] < MaxAccesses
    /\ selecting' = [selecting EXCEPT ![userId] = @ + 1]
    /\ Forget
    /\ UNCHANGED <<env, prefs>>
    /\ UNCHANGED <<remVars, obsVars>>

\* The first getUserPreferences of a handler. resumed: the execution is one
\* that had found no row and goes on at its INSERT (which fails if a row has
\* appeared meanwhile); otherwise SELECT and INSERT run without interruption.
FirstGet(userId, resumed) ==
    [table |-> IF resumed
               THEN InsertPrefs(prefs, userId, DEFAULTS.engine, DEFAULTS.model)
               ELSE PrefsAfterGet(userId),
     read |-> IF resumed THEN DefaultPrefs(userId) ELSE getUserPreferences(userId),
     access |-> IF ~resumed /\ SelectPrefs(prefs, userId) # <<>> THEN "found"
                ELSE IF UserRows(prefs, userId) = {} THEN "created"
                ELSE "conflict"]

\* the executions waiting for their INSERT, after one of userId has gone on
Resumed(userId, resumed) ==
    /\ resumed => selecting[userId] > 0
    /\ selecting' = IF resumed THEN [selecting EXCEPT ![userId] = @ - 1]
                    ELSE selecting

\* user_preferences setUserEngine after its getUserPreferences returned read:
\* the value returned, true unless its INSERT failed
setUserEngineReturns(table, read, userId) ==
    IF HasId(read) \/ UserRows(table, userId) = {} THEN "true" ELSE "false"

\* command controller handleUseCommand(client, msg, userId, args): the table
\* afterwards and the reply sent
handleUseCommand(userId, arg, resumed) ==
    LET requestedEngine == ToLowerCase(arg)
        g == FirstGet(userId, resumed)
        t1 == setUserEngine(g.table, g.read, userId, requestedEngine)
        read2 == ReadFrom(t1, userId)
        t2 == setUserModel(t1, read2, userId, getDefaultModel(requestedEngine))
    IN /\ resumed => isEngineAvailable(requestedEngine)
       /\ Resumed(userId, resumed)
       /\ prefs' = IF isEngineAvailable(requestedEngine) THEN t2 ELSE prefs
       /\ lastCall' = NoCall
       /\ lastAux' = IF isEngineAvailable(requestedEngine)
                     THEN [NoAux EXCEPT !.op = "handleUseCommand",
                                        !.user = userId,
                                        !.arg = requestedEngine,
                                        !.access = g.access,
                                        !.result = setUserEngineReturns(
                                                       g.table, g.read, userId),
                                        !.reply = "switched"]
                     ELSE [NoAux EXCEPT !.op = "handleUseCommand",
                                        !.user = userId,
                                        !.arg = requestedEngine,
                                        !.reply = "not available"]
       /\ UNCHANGED env
       /\ UNCHANGED <<remVars, obsVars>>

\* command controller handleModelCommand(client, msg, userId, args)
handleModelCommand(userId, arg, resumed) ==
    LET requestedModel == ToLowerCase(arg)
        g == FirstGet(userId, resumed)
        userPrefs == g.read
        t1 == g.table
        userEngine == JsOr(userPrefs.engine, DEFAULTS.engine)
        read2 == ReadFrom(t1, userId)
    IN /\ Resumed(userId, resumed)
       /\ prefs' = IF isModelAvailable(userEngine, requestedModel)
                   THEN setUserModel(t1, read2, userId, requestedModel)
                   ELSE t1
       /\ Forget
       /\ UNCHANGED env
       /\ UNCHANGED <<remVars, obsVars>>

(* ------------------------- AI router ------------------------------------ *)
\* sendMessage calling the adapter of the stored engine without asking
\* whether the engine is available
DispatchUnchecked(userPrefs) ==
    LET engineName == JsOr(userPrefs.engine, "openai")
        modelName == JsOr(userPrefs.model, getDefaultModel(engineName))
    IN [status |-> "called", service |-> getAIService(engineName),
        model |-> modelName]

\* ai_service sendMessage(userId, chatId, message, messageHistory): the adapter
\* called and the model handed to it, or the error thrown before any call
Dispatch(userPrefs) ==
    LET engineName == JsOr(userPrefs.engine, "openai")
        modelName == JsOr(userPrefs.model, getDefaultModel(engineName))
        availableEngines == getAvailableEngines
    IN IF ~isEngineAvailable(engineName)
       THEN IF Len(availableEngines) = 0
            THEN [status |-> "No AI engines available", service |-> NoVal,
                  model |-> NoVal]
            ELSE [status |-> "called",
                  service |-> getAIService(availableEngines[1]),
                  model |-> getDefaultModel(availableEngines[1])]
       ELSE IF ~isModelAvailable(engineName, modelName)
            THEN [status |-> "called", service |-> getAIService(engineName),
                  model |-> getDefaultModel(engineName)]
            ELSE [status |-> "called", service |-> getAIService(engineName),
                  model |-> modelName]

\* sendMessage calling, after a failed adapter, the adapter of another
\* available engine
AdapterCallsFailover(d, adapterOk) ==
    IF d.status # "called" THEN <<>>
    ELSE IF adapterOk \/ Len(getAvailableEngines) < 2
         THEN <<[service |-> d.service, ok |-> adapterOk]>>
         ELSE <<[service |-> d.service, ok |-> FALSE],
                [service |-> getAIService(getAvailableEngines[2]), ok |-> TRUE]>>

\* ai_service sendMessage: the calls of service.sendMessage it makes, in order
\* (adapterOk: the adapter resolves; otherwise it throws)
AdapterCalls(d, adapterOk) ==
    IF d.status # "called" THEN <<>>
    ELSE <<[service |-> d.service, ok |-> adapterOk]>>

\* ai_service sendMessage: how the promise settles, given the calls made
Settled(d, calls) ==
    IF d.status # "called" THEN "rejected: no engines"
    ELSE IF calls[Len(calls)].ok THEN "resolved"
    ELSE "rejected: adapter error"

sendMessage(userId, resumed, adapterOk) ==
    LET g == FirstGet(userId, resumed)
        userPrefs == g.read
        d == Dispatch(userPrefs)
        calls == AdapterCalls(d, adapterOk)
    IN /\ Resumed(userId, resumed)
       /\ prefs' = g.table
       /\ lastCall' = [user |-> userId, engine |-> userPrefs.engine,
                       prefModel |-> userPrefs.model, status |-> d.status,
                       service |-> d.service, model |-> d.model]
       /\ lastAux' = [op |-> "sendMessage", user |-> userId, arg |-> NoVal,
                      input |-> NoAnswer,
                      access |-> g.access, calls |-> calls,
                      result |-> Settled(d, calls), extracted |-> NoVal,
                      reply |-> NoVal]
       /\ UNCHANGED env
       /\ UNCHANGED <<remVars, obsVars>>

\* the bot is started again with other credentials in its environment: the
\* table of preferences is what survives
Reconfigure(keys) ==
    /\ env' = keys
    /\ env' # env
    /\ Forget
    /\ selecting' = [u \in Users |-> 0]
    /\ UNCHANGED prefs
    /\ UNCHANGED <<remVars, obsVars>>

(* ------------------------- primary provider ----------------------------- *)
\* What chat.completions.create does for one request: it throws, answers
\* without choices, or answers with a text that is not JSON, that is the JSON
\* null, or that is a JSON object. time is the object's "time" (NoTime when
\* absent, Unparseable for a text Date cannot read), content its "content",
\* needsSearch its "needsSearch" ("true", "false", or NoVal when absent).
Unparseable == -4
AnswerKinds == {"throws", "nochoices", "badjson", "jsonnull", "json"}

ReminderAnswers ==
    {[kind |-> k, time |-> NoTime, content |-> NoVal, needsSearch |-> NoVal] :
        k \in AnswerKinds \ {"json"}}
    \cup {[kind |-> "json", time |-> t, content |-> c, needsSearch |-> NoVal] :
             t \in Times \cup {NoTime, Unparseable}, c \in Contents \cup {NoVal}}

TextAnswers ==
    {[kind |-> k, time |-> NoTime, content |-> NoVal, needsSearch |-> NoVal] :
        k \in {"throws", "nochoices", "badjson"}}

SearchAnswers ==
    {[kind |-> k, time |-> NoTime, content |-> NoVal, needsSearch |-> NoVal] :
        k \in AnswerKinds \ {"json"}}
    \cup {[kind |-> "json", time |-> NoTime, content |-> NoVal, needsSearch |-> b] :
             b \in {"true", "false", NoVal}}

\* new Date(text)
NewDate(text) == IF text = Unparseable THEN InvalidDate ELSE text

\* the adapter function throws: the API call threw, or there were no choices
AdapterThrows(answer) == answer.kind \in {"throws", "nochoices"}

\* translateText / preprocessReminder of ai_service falling back, without the
\* OpenAI credential, on the first available engine
PrimaryCallsFallback(answer) ==
    IF isEngineAvailable("openai")
    THEN <<[service |-> "openaiService", ok |-> ~AdapterThrows(answer)]>>
    ELSE IF Len(getAvailableEngines) = 0 THEN <<>>
    ELSE <<[service |-> getAIService(getAvailableEngines[1]),
            ok |-> ~AdapterThrows(answer)]>>

\* translateText / preprocessReminder / needsSearchAugmentation of ai_service:
\* the adapter calls made (none without the OpenAI credential)
PrimaryCalls(answer) ==
    IF isEngineAvailable("openai")
    THEN <<[service |-> "openaiService", ok |-> ~AdapterThrows(answer)]>>
    ELSE <<>>

\* ai_service translateText over openai translateText: how the promise settles
translateTextResult(answer) ==
    IF ~isEngineAvailable("openai") THEN "rejected: OpenAI engine not available"
    ELSE IF AdapterThrows(answer) THEN "rejected: adapter error"
    ELSE "resolved"

\* ai_service preprocessReminder over openai preprocessReminder: how the
\* promise settles; the JSON.parse of the adapter throws on a text that is not
\* JSON
preprocessReminderResult(answer) ==
    IF ~isEngineAvailable("openai") THEN "rejected: OpenAI engine not available"
    ELSE IF AdapterThrows(answer) \/ answer.kind = "badjson"
         THEN "rejected: adapter error"
    ELSE "resolved"

\* processReminderText handing on whatever was parsed
processReminderTextUnchecked(answer) ==
    IF preprocessReminderResult(answer) # "resolved" THEN "null"
    ELSE IF answer.kind = "jsonnull" THEN "null"
    ELSE "data"

\* reminder service processReminderText: "null", or "data" when the parsed
\* object is handed on (it never throws: its catch returns null)
processReminderText(answer) ==
    IF preprocessReminderResult(answer) # "resolved" THEN "null"
    ELSE IF answer.kind = "jsonnull" \/ answer.time = NoTime
            \/ answer.content = NoVal THEN "null"
    ELSE "data"

\* openai needsSearchAugmentation answering false when it cannot parse
openaiNeedsSearchFailClosed(answer) ==
    IF AdapterThrows(answer) THEN "true"
    ELSE IF answer.kind \in {"badjson", "jsonnull"} THEN "false"
    ELSE IF answer.needsSearch = "true" THEN "true" ELSE "false"

\* openai needsSearchAugmentation: result.needsSearch === true, and true from
\* either catch (JSON null makes result.needsSearch throw inside the inner try)
openaiNeedsSearch(answer) ==
    IF AdapterThrows(answer) THEN "true"
    ELSE IF answer.kind \in {"badjson", "jsonnull"} THEN "true"
    ELSE IF answer.needsSearch = "true" THEN "true" ELSE "false"

\* ai_service translateText(text, sourceLanguage, targetLanguage)
translateText(answer) ==
    /\ lastAux' = [op |-> "translateText", user |-> NoVal, arg |-> NoVal,
                   input |-> answer, access |-> NoVal,
                   calls |-> PrimaryCalls(answer),
                   result |-> translateTextResult(answer),
                   extracted |-> NoVal, reply |-> NoVal]
    /\ lastCall' = NoCall
    /\ UNCHANGED <<env, prefs, selecting>>
    /\ UNCHANGED <<remVars, obsVars>>

\* ai_service needsSearchAugmentation(query)
needsSearchAugmentation(answer) ==
    /\ lastAux' = [op |-> "needsSearchAugmentation", user |-> NoVal,
                   arg |-> NoVal, input |-> answer,
                   access |-> NoVal, calls |-> PrimaryCalls(answer),
                   result |-> IF ~isEngineAvailable("openai") THEN "true"
                              ELSE openaiNeedsSearch(answer),
                   extracted |-> NoVal, reply |-> NoVal]
    /\ lastCall' = NoCall
    /\ UNCHANGED <<env, prefs, selecting>>
    /\ UNCHANGED <<remVars, obsVars>>

\* reminder controller handleReminderCommand(client, msg, userId, chatId,
\* isGroup, reminderText) for a non-empty reminderText
handleReminderCommand(userId, chatId, answer) ==
    LET reminderData == processReminderText(answer)
        understood == reminderData = "data" /\ answer.time # NoTime
                         /\ answer.content # NoVal
    IN /\ IF understood
          THEN CreateEffect(userId, chatId, answer.content, NewDate(answer.time))
          ELSE UNCHANGED <<reminders, nextId, attempts, errors, lastCreate>>
       /\ lastAux' = [op |-> "handleReminderCommand", user |-> userId,
                      arg |-> NoVal, input |-> answer,
                      access |-> NoVal, calls |-> PrimaryCalls(answer),
                      result |-> preprocessReminderResult(answer),
                      extracted |-> reminderData,
                      reply |-> IF ~understood THEN "not understood"
                                ELSE IF lastCreate'.reminderId = 0 THEN "sorry"
                                ELSE "reminder set"]
       /\ lastCall' = NoCall
       /\ UNCHANGED <<env, prefs, selecting>>
       /\ UNCHANGED <<now, scheduledJobs, timers, nextTok, tasks, startupPending,
                      restarts, last, listed, handled>>

(* ------------------------- message events ------------------------------- *)
\* the bot's own id (client.info.wid._serialized) and another contact
BotId == "15147715108@c.us"
OtherId == "222@c.us"

\* id.split('@')[0]
NumberOf(id) ==
    CASE id = "15147715108@c.us" -> "15147715108"
      [] id = "222@c.us" -> "222"
      [] id = "12345@c.us" -> "12345"
      [] id = "777@g.us" -> "777"
      [] OTHER -> id

\* the part of a chat id from its '@' on
Suffix(id) == IF id = "777@g.us" THEN "@g.us" ELSE "@c.us"

\* the ways of addressing the bot in a body, in lower case
botIndicators == <<"@bot", "hey bot", "@15147715108">>

\* message_parser.isGroupMessage
isGroupMessage(msg) == Suffix(msg.from) = "@g.us"

\* isBotMentioned taking a mention of any contact for a mention of the bot
isBotMentionedAnyContact(msg) ==
    IF msg.body = <<>> THEN FALSE
    ELSE IF msg.mentionedIds # {} THEN TRUE
    ELSE \E k \in DOMAIN msg.body, i \in DOMAIN botIndicators :
            ToLowerCase(msg.body[k]) = botIndicators[i]

\* message_parser.isBotMentioned(msg, botId); a body is its words in order
isBotMentioned(msg) ==
    IF msg.body = <<>> THEN FALSE
    ELSE IF \E m \in msg.mentionedIds : NumberOf(m) = NumberOf(BotId) THEN TRUE
    ELSE \E k \in DOMAIN msg.body, i \in DOMAIN botIndicators :
            ToLowerCase(msg.body[k]) = botIndicators[i]

\* message.replace(/^\s*mention\s*/i, '')
StripLeading(body, mention) ==
    IF body # <<>> /\ ToLowerCase(Head(body)) = mention THEN Tail(body) ELSE body

\* message_parser.removeBotMention(message, botNumber): the mention formats
\* are removed from the beginning one after the other
removeBotMention(body) ==
    StripLeading(StripLeading(StripLeading(body, botIndicators[1]),
                              botIndicators[2]), botIndicators[3])

\* processedBody.startsWith('!') || processedBody.startsWith('/')
StartsWithCommandMark(body) == body # <<>> /\ Head(body) \in {"!help", "/help"}

\* command controller handleCommand: what it does with the message
handleCommand(msg) == {"command", "reply"}

\* message controller handleMessage: what it does with the message
messageControllerHandleMessage(msg) ==
    IF msg.isStatus \/ msg.fromMe THEN {} ELSE {"persist", "ai", "reply"}

\* app handleMessage(message): what is done for the message
handleMessage(msg) ==
    LET processedBody == removeBotMention(msg.body)
        effects ==
            IF msg.isStatus THEN {}
            ELSE IF isGroupMessage(msg) /\ ~isBotMentioned(msg) THEN {}
            ELSE IF StartsWithCommandMark(processedBody) THEN handleCommand(msg)
            ELSE messageControllerHandleMessage(msg)
    IN /\ handled' = [from |-> msg.from, isStatus |-> msg.isStatus,
                      fromMe |-> msg.fromMe, mentionedIds |-> msg.mentionedIds,
                      body |-> msg.body, effects |-> effects]
       /\ UNCHANGED <<remVars, aiVars, lastCreate, listed>>

(* ------------------------- specification -------------------------------- *)
NoCreate == [userId |-> NoVal, chatId |-> NoVal, content |-> NoVal,
             time |-> NoTime, at |-> 0, reminderId |-> 0]

NoList == [userId |-> NoVal, reminders |-> <<>>]

NoMessage == [from |-> NoVal, isStatus |-> FALSE, fromMe |-> FALSE,
              mentionedIds |-> {}, body |-> <<>>, effects |-> {}]

NoRequest == [op |-> NoVal, requester |-> NoVal, id |-> 0, owner |-> NoVal,
              ok |-> FALSE, kept |-> TRUE, reply |-> NoVal]

ReminderInit ==
    /\ now = 0
    /\ reminders = [x \in {} |-> 0]
    /\ nextId = 1
    /\ scheduledJobs = [x \in {} |-> 0]
    /\ timers = {}
    /\ nextTok = 1
    /\ tasks = EmptyBag
    /\ startupPending = TRUE
    /\ restarts = 0
    /\ attempts = [x \in {} |-> 0]
    /\ errors = [x \in {} |-> FALSE]
    /\ last = NoRequest
    /\ lastCreate = NoCreate
    /\ listed = NoList
    /\ handled = NoMessage

\* the router at rest, every credential set
Init ==
    /\ ReminderInit
    /\ env = EnvKeys
    /\ prefs = {}
    /\ lastCall = NoCall
    /\ lastAux = NoAux
    /\ selecting = [u \in Users |-> 0]

\* the router of a bot started with any set of credentials
RouterInit ==
    /\ ReminderInit
    /\ env \in SUBSET EnvKeys
    /\ prefs = {}
    /\ lastCall = NoCall
    /\ lastAux = NoAux
    /\ selecting = [u \in Users |-> 0]

EngineArgs == {"openai", "anthropic", "OpenAI", "mistral"}
ModelArgs == {"gpt-3.5-turbo", "claude-3-opus", "GPT-4o", "o9"}

RouterNext ==
    \/ \E u \in Users : getUserPreferencesSelect(u)
    \/ \E u \in Users, a \in EngineArgs, resumed \in BOOLEAN :
          handleUseCommand(u, a, resumed)
    \/ \E u \in Users, a \in ModelArgs, resumed \in BOOLEAN :
          handleModelCommand(u, a, resumed)
    \/ \E u \in Users, resumed \in BOOLEAN, adapterOk \in BOOLEAN :
          sendMessage(u, resumed, adapterOk)
    \/ \E keys \in SUBSET EnvKeys : Reconfigure(keys)

RouterSpec == RouterInit /\ [][RouterNext]_vars

\* the reminder commands and helper requests that go to the primary provider,
\* for a bot started with any set of credentials and users who switch engines
PrimaryNext ==
    \/ \E a \in TextAnswers : translateText(a)
    \/ \E a \in SearchAnswers : needsSearchAugmentation(a)
    \/ \E u \in Users, c \in Chats, a \in ReminderAnswers :
          handleReminderCommand(u, c, a)
    \/ \E u \in Users, a \in EngineArgs : handleUseCommand(u, a, FALSE)

PrimarySpec == RouterInit /\ [][PrimaryNext]_vars

\* a database as a start of the process can find it: up to MaxStored reminders
\* of any owner, trigger time and triggered flag
Stores ==
    UNION {{[i \in 1..k |-> [id |-> i, user_id |-> f[i].user_id,
                              chat_id |-> "chat1", content |-> "call mom",
                              trigger_time |-> f[i].trigger_time,
                              is_triggered |-> f[i].is_triggered]] :
               f \in [1..k -> [user_id : Users, trigger_time : Times,
                               is_triggered : BOOLEAN]]} : k \in 0..MaxStored}

\* the process starts (handleReady) on a database that holds reminders
StoreInit ==
    /\ now = 0
    /\ reminders \in Stores
    /\ nextId = Len(reminders) + 1
    /\ scheduledJobs = [x \in {} |-> 0]
    /\ timers = {}
    /\ nextTok = 1
    /\ tasks = EmptyBag
    /\ startupPending = TRUE
    /\ restarts = 0
    /\ attempts = [i \in DOMAIN reminders |-> 0]
    /\ errors = [i \in DOMAIN reminders |-> FALSE]
    /\ last = NoRequest
    /\ lastCreate = NoCreate
    /\ listed = NoList
    /\ handled = NoMessage
    /\ env = EnvKeys
    /\ prefs = {}
    /\ lastCall = NoCall
    /\ lastAux = NoAux
    /\ selecting = [u \in Users |-> 0]

\* list requests on such a database
StoreNext == \E u \in Users : handleListRemindersCommand(u)

StoreSpec == StoreInit /\ [][StoreNext]_vars

\* the sweeps of a process started on such a database
StartupNext ==
    \/ Tick
    \/ SweepTick
    \/ StartupCheck
    \/ \E t \in Running : SendOk(t)
    \/ \E t \in Running : SendFail(t)
    \/ \E t \in Running : Mark(t)

StartupSpec == StoreInit /\ [][StartupNext]_vars

\* the scheduler used directly: jobs scheduled, cancelled and run for the
\* reminders of a database
SchedulerInit == StoreInit /\ Len(reminders) = MaxReminders

SchedulerNext ==
    \/ Tick
    \/ \E id \in Ids, date \in 1..(MaxTime + 1) : scheduleJob(id, date)
    \/ \E id \in Ids : CancelJob(id)
    \/ \E j \in timers : TimerFire(j)
    \/ \E t \in Running : SendOk(t)
    \/ \E t \in Running : SendFail(t)
    \/ \E t \in Running : Mark(t)

SchedulerSpec == SchedulerInit /\ [][SchedulerNext]_vars

\* the router of a bot started on a table of preferences that holds any
\* engine name and model id
StoredEngines == EngineArgs \cup {"gemini", "deepseek", ""}
StoredModels == {"gpt-4o", "claude-3-opus", "o9"}

StoredPrefsInit ==
    /\ ReminderInit
    /\ env \in SUBSET EnvKeys
    /\ prefs \in {{}} \cup {{[id |-> 1, user_id |-> "u1", engine |-> e,
                               model |-> m]} :
                                e \in StoredEngines, m \in StoredModels}
    /\ lastCall = NoCall
    /\ lastAux = NoAux
    /\ selecting = [u \in Users |-> 0]

StoredPrefsNext ==
    \E u \in Users, adapterOk \in BOOLEAN : sendMessage(u, FALSE, adapterOk)

StoredPrefsSpec == StoredPrefsInit /\ [][StoredPrefsNext]_vars

\* the messages the client hands to the message listener
Words == {"@bot", "Hey Bot", "@15147715108", "hello", "!help", "/help"}
Bodies == UNION {[1..n -> Words] : n \in 0..MaxWords}
Messages == [from : {"12345@c.us", "777@g.us"}, isStatus : BOOLEAN,
             fromMe : BOOLEAN, mentionedIds : SUBSET {BotId, OtherId},
             body : Bodies]

MessageNext == \E msg \in Messages : handleMessage(msg)

MessageSpec == Init /\ [][MessageNext]_vars

\* every step of the reminder engine in which no send fails
NextDelivering ==
    \/ Tick
    \/ \E u \in Users \cup {NoVal}, c \in Chats \cup {NoVal},
          x \in Contents \cup {NoVal}, t \in Times \cup {NoTime, InvalidDate} :
          createReminder(u, c, x, t)
    \/ \E u \in Users : handleListRemindersCommand(u)
    \/ \E id \in Ids, u \in Users \cup {NoVal} : removeReminder(id, u)
    \/ \E u \in Users, id \in Ids : handleRemoveReminderCommand(u, id)
    \/ \E id \in Ids : scheduleReminderNotification(id)
    \/ \E j \in timers : TimerFire(j)
    \/ SweepTick
    \/ StartupCheck
    \/ \E t \in Running : SendOk(t)
    \/ \E t \in Running : Mark(t)
    \/ Restart

Next ==
    \/ NextDelivering
    \/ \E t \in Running : SendFail(t)

Spec == Init /\ [][Next]_vars

\* a step of some delivery whose current row is id
DeliveryStep(id) ==
    \E t \in Running : Head(t.queue).id = id /\ (SendOk(t) \/ Mark(t))

\* The transport never fails; the recurring job keeps firing (it is the bound
\* on executions in flight, not the code, that can hold a sweep back, hence
\* strong fairness); every delivery in flight goes on.
FairSpec ==
    /\ Init
    /\ [][NextDelivering]_vars
    /\ SF_vars(SweepTick)
    /\ \A id \in Ids : WF_vars(DeliveryStep(id))

(* ------------------------- claims -------------------------------------- *)
\* the deliveries in flight whose current row is id
Delivering(id) == {t \in Running : Head(t.queue).id = id}

\* the execution t, which was about to send, is over or has moved to its next
\* row without having gone on to mark: its client.sendMessage threw
DeliveryFailed(t) ==
    /\ t.pc = "send"
    /\ restarts' = restarts
    /\ CopiesIn(t, tasks') < CopiesIn(t, tasks)
    /\ CopiesIn([t EXCEPT !.pc = "mark"], tasks')
          <= CopiesIn([t EXCEPT !.pc = "mark"], tasks)

\* C1: when the timer callback of a reminder and a sweep pass have both fired
\* for it and interleave (each has made its send, neither has marked yet),
\* exactly one call of client.sendMessage has been made for that reminder.
C1_ExactlyOneNotification ==
    \A t1 \in Running, t2 \in Running :
        ( /\ t1.kind = "timer" /\ t2.kind = "sweep"
          /\ t1.pc = "mark" /\ t2.pc = "mark"
          /\ Head(t1.queue).id = Head(t2.queue).id )
        => attempts[Head(t1.queue).id] = 1

C4_OwnerRemoveSucceeds ==
    ( /\ last.op = "rmrem"
      /\ last.owner # NoVal
      /\ last.requester = last.owner )
    => (last.ok /\ ~last.kept /\ last.reply = "removed")

\* C5: once a reminder has been removed, the scheduler holds no job under its
\* id.
C5_RemoveCancelsTimer ==
    \A id \in DOMAIN scheduledJobs : id \in DOMAIN reminders

\* a reminder that is stored, untriggered and due
Due(id) ==
    /\ id \in DOMAIN reminders
    /\ ~reminders[id].is_triggered
    /\ reminders[id].trigger_time <= now

\* C6: a stored, untriggered reminder whose trigger time has passed is
\* eventually marked triggered (after a notification), unless it is deleted,
\* whatever restarts happened, while the sweep keeps running and sends succeed.
C6_DueEventuallyTriggered ==
    \A id \in Ids :
        Due(id) ~> (id \notin DOMAIN reminders \/ reminders[id].is_triggered)

C6_Witness ==
    /\ restarts > 0
    /\ nextTok = 1
    /\ \E id \in DOMAIN reminders :
          /\ reminders[id].is_triggered
          /\ attempts[id] = 1

\* C7: every delivery in flight, whatever path started it, is for a reminder
\* whose trigger time is not later than now, and that is its stored trigger
\* time: no send is made before the trigger time.
C7_NeverEarly ==
    \A t \in Running :
        \A k \in 1..Len(t.queue) :
            /\ t.queue[k].trigger_time <= now
            /\ t.queue[k].id \in DOMAIN reminders
                  => reminders[t.queue[k].id].trigger_time = t.queue[k].trigger_time

C7_Witness ==
    \E t \in Running :
        /\ t.kind = "timer"
        /\ t.pc = "mark"
        /\ Head(t.queue).trigger_time = now
        /\ now > 0

\* C8: a new row has its triggered flag false and a fresh id; the flag of a
\* row never goes from true to false; and a step that changes the flag is the
\* markReminderAsTriggered of a delivery of that reminder.
C8_TriggeredMonotone ==
    [][ /\ \A id \in (DOMAIN reminders') \ (DOMAIN reminders) :
              /\ ~reminders'[id].is_triggered
              /\ id >= nextId
        /\ \A id \in (DOMAIN reminders') \cap (DOMAIN reminders) :
              /\ reminders[id].is_triggered => reminders'[id].is_triggered
              /\ reminders'[id].is_triggered # reminders[id].is_triggered
                    => \E t \in Delivering(id) :
                          /\ t.pc = "mark"
                          /\ CopiesIn(t, tasks') < CopiesIn(t, tasks) ]_vars

C8_Witness ==
    \E id \in DOMAIN reminders :
        /\ reminders[id].is_triggered
        /\ attempts[id] = MaxAttempts

\* the adapter module of each registered provider
Adapter == [openai |-> "openaiService", anthropic |-> "anthropicService",
            gemini |-> "geminiService", deepseek |-> "deepseekService"]

\* the provider of position i of the registry has its credential
HasCredential(i) == ENGINES[i].envKey \in env

\* the stored engine name is a registered provider that has its credential
Usable(engineName) ==
    \E i \in DOMAIN ENGINES : ENGINES[i].name = engineName /\ HasCredential(i)

\* C9: a call of the router for a user whose stored engine is unavailable,
\* while some provider is available, goes to the adapter of the first
\* available provider in the order of the registry, with that provider's
\* default model (so it depends on the credentials alone).
C9_FirstAvailable ==
    ( /\ lastCall.user # NoVal
      /\ ~Usable(lastCall.engine)
      /\ env # {} )
    => \E i \in DOMAIN ENGINES :
          /\ HasCredential(i)
          /\ \A j \in 1..(i - 1) : ~HasCredential(j)
          /\ lastCall.status = "called"
          /\ lastCall.service = Adapter[ENGINES[i].name]
          /\ lastCall.model = ENGINES[i].defaultModel

C9_Witness ==
    /\ lastCall.user # NoVal
    /\ ~Usable(lastCall.engine)
    /\ env = {"GEMINI_API_KEY", "DEEPSEEK_API_KEY"}
    /\ lastCall.service = "geminiService"

\* C10: a call of the router for a user whose stored engine is available and
\* whose stored model is not in that engine's list goes to the adapter of that
\* same engine with that engine's default model.
C10_SameEngineDefaultModel ==
    \A i \in DOMAIN ENGINES :
        ( /\ lastCall.user # NoVal
          /\ lastCall.engine = ENGINES[i].name
          /\ HasCredential(i)
          /\ \A k \in DOMAIN ENGINES[i].models :
                ENGINES[i].models[k] # lastCall.prefModel )
        => /\ lastCall.status = "called"
           /\ lastCall.service = Adapter[ENGINES[i].name]
           /\ lastCall.model = ENGINES[i].defaultModel

C10_Witness ==
    /\ lastCall.user # NoVal
    /\ lastCall.engine = "openai"
    /\ "OPENAI_API_KEY" \in env
    /\ lastCall.prefModel = "claude-3-opus"
    /\ lastCall.service = "openaiService"
    /\ lastCall.model = "gpt-4o"

\* C11: a call of the router while no provider has its credential is rejected
\* with the error "No AI engines available" and calls no adapter, whatever the
\* preference read for the user.
C11_NoProviderRejects ==
    (lastAux.op = "sendMessage" /\ env = {})
    => /\ lastCall.status = "No AI engines available"
       /\ lastCall.service = NoVal
       /\ lastAux.calls = <<>>
       /\ lastAux.result = "rejected: no engines"

C11_Witness ==
    /\ lastAux.op = "sendMessage"
    /\ env = {}
    /\ lastCall.engine = "anthropic"
    /\ lastAux.result = "rejected: no engines"

\* C12: a call of the router calls at most one adapter, the one it chose; when
\* that adapter throws, the router's promise is rejected with the adapter's
\* error, without a second call to that or to another adapter.
C12_SingleAttempt ==
    lastAux.op = "sendMessage"
    => /\ Len(lastAux.calls) <= 1
       /\ lastAux.calls # <<>>
             => /\ lastAux.calls[1].service = lastCall.service
                /\ ~lastAux.calls[1].ok => lastAux.result = "rejected: adapter error"

C12_Witness ==
    /\ lastAux.op = "sendMessage"
    /\ lastAux.calls = <<[service |-> "anthropicService", ok |-> FALSE]>>
    /\ lastAux.result = "rejected: adapter error"
    /\ "OPENAI_API_KEY" \in env
    /\ "GEMINI_API_KEY" \in env

\* C13: no user ever has two preference rows; once a call of the router has
\* read the preferences of a user, that user has a row; and a call of the
\* router whose getUserPreferences found no row and whose INSERT went through
\* adds exactly one row, of that user with the system defaults, while one that
\* found a row (at its SELECT, or at its INSERT because another first access
\* came in between) leaves the table as it is.
C13_OneRowPerUser ==
    /\ [](\A u \in Users : Cardinality(UserRows(prefs, u)) <= 1)
    /\ [](lastAux.op = "sendMessage" => UserRows(prefs, lastCall.user) # {})
    /\ [][lastAux'.op = "sendMessage"
          => IF lastAux'.access = "created"
             THEN /\ UserRows(prefs, lastCall'.user) = {}
                  /\ \E r \in prefs' :
                        /\ prefs' = prefs \cup {r}
                        /\ r.user_id = lastCall'.user
                        /\ r.engine = DEFAULTS.engine
                        /\ r.model = DEFAULTS.model
             ELSE prefs' = prefs]_vars

C13_Witness ==
    /\ lastAux.op = "sendMessage"
    /\ lastAux.access = "conflict"
    /\ selecting[lastCall.user] = 0
    /\ \E r \in prefs :
          /\ UserRows(prefs, lastCall.user) = {r}
          /\ r.engine = DEFAULTS.engine
          /\ r.model = DEFAULTS.model

\* C14: every stored preference row names a registered provider and a model
\* of that provider's list.
C14_StoredPairValid ==
    \A r \in prefs :
        \E i \in DOMAIN ENGINES :
            /\ ENGINES[i].name = r.engine
            /\ \E k \in DOMAIN ENGINES[i].models : ENGINES[i].models[k] = r.model

\* the list holds rows of its user only, untriggered ones only
ListedOwnUntriggered ==
    \A k \in DOMAIN listed.reminders :
        /\ listed.reminders[k].user_id = listed.userId
        /\ ~listed.reminders[k].is_triggered

\* C15 as stated: the list handed back for a user holds only that user's
\* untriggered reminders, in strictly ascending order of trigger time.
C15_ListStrictlyAscending ==
    listed.userId # NoVal
    => /\ ListedOwnUntriggered
       /\ \A i \in DOMAIN listed.reminders, j \in DOMAIN listed.reminders :
             i < j => listed.reminders[i].trigger_time
                         < listed.reminders[j].trigger_time

\* C15 as amended: the list handed back for a user holds each of that user's
\* untriggered stored reminders once and nothing else, in ascending order of
\* trigger time, reminders of equal trigger time next to each other.
C15_ListAscending ==
    listed.userId # NoVal
    => /\ ListedOwnUntriggered
       /\ \A id \in DOMAIN reminders :
             (reminders[id].user_id = listed.userId /\ ~reminders[id].is_triggered)
             => Cardinality({k \in DOMAIN listed.reminders :
                                listed.reminders[k] = reminders[id]}) = 1
       /\ \A i \in DOMAIN listed.reminders, j \in DOMAIN listed.reminders :
             i < j => listed.reminders[i].trigger_time
                         <= listed.reminders[j].trigger_time

C15_Witness ==
    /\ listed.userId # NoVal
    /\ Len(listed.reminders) = 2
    /\ listed.reminders[1].trigger_time = listed.reminders[2].trigger_time
    /\ \E id \in DOMAIN reminders :
          reminders[id].user_id = listed.userId /\ reminders[id].is_triggered

\* the sweeps in flight that still have the reminder id to deliver
SweepsHolding(id) ==
    {t \in Running : t.kind = "sweep"
                       /\ \E k \in DOMAIN t.queue : t.queue[k].id = id}

\* C16: after a start of the process, a reminder that was due at the start
\* (trigger time not later than the start) and untriggered, and for which no
\* send has been made yet, is waiting for the check at startup or is in the
\* queue of a sweep in flight; no one-shot job is involved.
C16_PastDueInFirstSweep ==
    \A id \in DOMAIN reminders :
        ( /\ reminders[id].trigger_time <= 0
          /\ ~reminders[id].is_triggered
          /\ attempts[id] = 0 )
        => /\ startupPending \/ SweepsHolding(id) # {}
           /\ timers = {}

C16_Witness ==
    /\ ~startupPending
    /\ Running = {}
    /\ now = 0
    /\ timers = {}
    /\ nextTok = 1
    /\ Cardinality({id \in DOMAIN reminders :
                       /\ reminders[id].trigger_time <= 0
                       /\ attempts[id] >= 1}) >= 2

\* a create call has just been made
Created == lastCreate' # lastCreate \/ nextId' # nextId

\* the new row of a create call and what a list for its user then holds
Persisted(userId) ==
    /\ lastCreate'.reminderId > 0
    /\ lastCreate'.reminderId \notin DOMAIN reminders
    /\ DOMAIN reminders' = DOMAIN reminders \cup {lastCreate'.reminderId}
    /\ \A id \in DOMAIN reminders : reminders'[id] = reminders[id]
    /\ ~reminders'[lastCreate'.reminderId].is_triggered
    /\ \E k \in DOMAIN getUserReminders(userId)' :
          /\ getUserReminders(userId)'[k].id = lastCreate'.reminderId
          /\ getUserReminders(userId)'[k].content = lastCreate'.content
          /\ getUserReminders(userId)'[k].trigger_time = lastCreate'.time

\* some required field of the latest create call was missing
FieldMissing(c) ==
    c.userId = NoVal \/ c.chatId = NoVal \/ c.content = NoVal \/ c.time = NoTime

\* C17 as stated: a create call with a required field missing returns null
\* and stores nothing; every other create call stores one untriggered row,
\* returns its positive id, and a list for that user then holds a reminder of
\* that id with the content and trigger time given.
C17_CreateOrReject ==
    [][Created =>
          IF FieldMissing(lastCreate')
          THEN lastCreate'.reminderId = 0 /\ reminders' = reminders
          ELSE \E u \in Users : u = lastCreate'.userId /\ Persisted(u)]_vars

\* C17 as amended: likewise, a time that is an Invalid Date being rejected as
\* a missing one is.
C17_CreateValidOrReject ==
    [][Created =>
          IF FieldMissing(lastCreate') \/ lastCreate'.time = InvalidDate
          THEN lastCreate'.reminderId = 0 /\ reminders' = reminders
          ELSE \E u \in Users : u = lastCreate'.userId /\ Persisted(u)]_vars

C17_Witness ==
    /\ lastCreate.reminderId > 0
    /\ lastCreate.reminderId \in DOMAIN reminders
    /\ reminders[lastCreate.reminderId].content = lastCreate.content
    /\ reminders[lastCreate.reminderId].trigger_time = lastCreate.time
    /\ \E k \in DOMAIN listed.reminders :
          listed.reminders[k].id = lastCreate.reminderId

\* the extraction has nothing to hand on: the call failed, the answer is not
\* JSON, or it lacks the time or the content
ExtractionFails(answer) ==
    \/ "OPENAI_API_KEY" \notin env
    \/ answer.kind \in {"throws", "nochoices", "badjson", "jsonnull"}
    \/ answer.time = NoTime
    \/ answer.content = NoVal

\* C18: a reminder command whose extraction fails in one of these ways gets
\* null from processReminderText, answers that it did not understand, and
\* stores no reminder.
C18_FailedExtractionPersistsNothing ==
    [][(lastAux'.op = "handleReminderCommand" /\ ExtractionFails(lastAux'.input))
       => /\ lastAux'.extracted = "null"
          /\ lastAux'.reply = "not understood"
          /\ reminders' = reminders
          /\ nextId' = nextId]_vars

C18_Witness ==
    /\ lastAux.op = "handleReminderCommand"
    /\ "OPENAI_API_KEY" \in env
    /\ lastAux.input.kind = "json"
    /\ lastAux.input.time \in Times
    /\ lastAux.input.content = NoVal
    /\ lastAux.extracted = "null"
    /\ DOMAIN reminders = {}

\* C19: a translation or a reminder extraction calls the OpenAI adapter, once,
\* and no other one, when OpenAI has its credential; without it, it is rejected
\* with an error and calls no adapter. The stored preferences play no part.
C19_PrimaryOnly ==
    lastAux.op \in {"translateText", "handleReminderCommand"}
    => IF "OPENAI_API_KEY" \in env
       THEN /\ Len(lastAux.calls) = 1
            /\ lastAux.calls[1].service = "openaiService"
       ELSE /\ lastAux.calls = <<>>
            /\ lastAux.result = "rejected: OpenAI engine not available"

C19_Witness ==
    /\ lastAux.op = "translateText"
    /\ "OPENAI_API_KEY" \notin env
    /\ "ANTHROPIC_API_KEY" \in env
    /\ \E r \in prefs : r.engine = "anthropic"
    /\ lastAux.calls = <<>>

\* C20: the search-need classifier answers true when OpenAI has no credential,
\* when the call throws, when the answer has no choices and when the answer is
\* not JSON.
C20_ClassifierFailsOpen ==
    ( /\ lastAux.op = "needsSearchAugmentation"
      /\ \/ "OPENAI_API_KEY" \notin env
         \/ lastAux.input.kind \in {"throws", "nochoices", "badjson"} )
    => lastAux.result = "true"

C20_Witness ==
    /\ lastAux.op = "needsSearchAugmentation"
    /\ "OPENAI_API_KEY" \in env
    /\ lastAux.input.kind = "badjson"
    /\ lastAux.result = "true"

\* engine names and model ids a caller may pass
EngineNames == {ENGINES[i].name : i \in DOMAIN ENGINES} \cup {"OpenAI", "mistral"}
ModelNames ==
    UNION {{ENGINES[i].models[k] : k \in DOMAIN ENGINES[i].models} :
              i \in DOMAIN ENGINES} \cup {"GPT-4o", "o9"}

\* C21: for every engine name and model id, isEngineAvailable holds exactly
\* when the name is a registered provider whose credential variable is set;
\* isModelAvailable exactly when moreover the model is in that provider's
\* list; getDefaultModel is the configured default for an available provider
\* and null otherwise; getAvailableEngines lists the available providers.
C21_AvailabilityFunctions ==
    /\ \A e \in EngineNames :
          /\ isEngineAvailable(e) <=> Usable(e)
          /\ \A m \in ModelNames :
                isModelAvailable(e, m)
                <=> \E i \in DOMAIN ENGINES :
                       /\ ENGINES[i].name = e
                       /\ HasCredential(i)
                       /\ \E k \in DOMAIN ENGINES[i].models :
                             ENGINES[i].models[k] = m
          /\ \A i \in DOMAIN ENGINES :
                ENGINES[i].name = e
                => getDefaultModel(e) = IF HasCredential(i)
                                        THEN ENGINES[i].defaultModel ELSE NoVal
          /\ ~(\E i \in DOMAIN ENGINES : ENGINES[i].name = e)
                => getDefaultModel(e) = NoVal
    /\ {getAvailableEngines[k] : k \in DOMAIN getAvailableEngines}
          = {ENGINES[i].name : i \in {j \in DOMAIN ENGINES : HasCredential(j)}}

C21_Witness ==
    /\ lastAux.op = "handleUseCommand"
    /\ lastAux.arg = "anthropic"
    /\ lastAux.reply = "switched"
    /\ "OPENAI_API_KEY" \notin env
    /\ \E r \in prefs : r.model = "claude-3-opus"

\* C22: no two sweep passes in flight have both made their send for the same
\* reminder.
C22_SweepsNeverBothSend ==
    \A t1 \in Running, t2 \in Running :
        ( /\ t1.kind = "sweep" /\ t2.kind = "sweep"
          /\ t1.pc = "mark" /\ t2.pc = "mark"
          /\ Head(t1.queue).id = Head(t2.queue).id )
        => (t1 = t2 /\ CopiesIn(t1, tasks) = 1)

\* C23: a delivery never makes a successful send for a reminder whose row is
\* no longer stored.
C23_NoSendForDeleted ==
    [][\A t \in Running :
          ( /\ t.pc = "send"
            /\ CopiesIn([t EXCEPT !.pc = "mark"], tasks')
                  > CopiesIn([t EXCEPT !.pc = "mark"], tasks) )
          => Head(t.queue).id \in DOMAIN reminders]_vars

\* C24: a start of the process leaves every stored untriggered reminder whose
\* trigger time is later than now with a job under its id, due at its trigger
\* time.
C24_FutureScheduledOnStart ==
    [][restarts' > restarts
       => \A id \in DOMAIN reminders' :
             (~reminders'[id].is_triggered /\ reminders'[id].trigger_time > now')
             => /\ id \in DOMAIN scheduledJobs'
                /\ \E j \in timers' : /\ j.tok = scheduledJobs'[id]
                                      /\ j.date = reminders'[id].trigger_time]_vars

\* C25: a create call whose time is already past stores the reminder; no job
\* is ever registered for a reminder whose trigger time is not later than now
\* (it is sent at once instead); and a sweep that starts takes every stored,
\* untriggered reminder whose trigger time is not later than now.
C25_PastDueTreatedAsDue ==
    [][ /\ ( /\ Created
             /\ ~FieldMissing(lastCreate')
             /\ lastCreate'.time \in Times
             /\ lastCreate'.time < now )
           => /\ lastCreate'.reminderId > 0
              /\ lastCreate'.reminderId \in DOMAIN reminders'
        /\ \A id \in DOMAIN reminders :
              reminders[id].trigger_time <= now
              => /\ \A j \in timers' \ timers : j.reminder.id # id
                 /\ id \in DOMAIN scheduledJobs'
                       => /\ id \in DOMAIN scheduledJobs
                          /\ scheduledJobs'[id] = scheduledJobs[id]
        /\ \A t \in BagToSet(tasks') :
              ( /\ t.kind = "sweep"
                /\ BagCardinality(tasks') > BagCardinality(tasks)
                /\ CopiesIn(t, tasks') > CopiesIn(t, tasks) )
              => \A id \in Ids : Due(id) => \E k \in DOMAIN t.queue :
                                               t.queue[k].id = id ]_vars

C25_Witness ==
    /\ lastCreate.reminderId > 0
    /\ lastCreate.time < lastCreate.at
    /\ timers = {}
    /\ DOMAIN scheduledJobs = {}
    /\ \E t \in Running :
          /\ t.kind = "immediate"
          /\ Head(t.queue).id = lastCreate.reminderId
          /\ Head(t.queue).trigger_time < now

\* C26: every pending job is registered in scheduledJobs under its id, and
\* every entry of scheduledJobs is for a job that is pending or whose callback
\* has not finished.
C26_EntryIffPending ==
    /\ \A j \in timers :
          /\ j.reminder.id \in DOMAIN scheduledJobs
          /\ scheduledJobs[j.reminder.id] = j.tok
    /\ \A id \in DOMAIN scheduledJobs :
          \/ \E j \in timers : j.tok = scheduledJobs[id]
          \/ \E t \in Running : t.kind = "timer" /\ Head(t.queue).id = id

\* C27: every adapter the router calls is that of a registered provider whose
\* credential is set: the stored engine when it is available, the first
\* available provider of the registry otherwise.
C27_CalledAdapterHasCredential ==
    lastAux.op = "sendMessage"
    => \A k \in DOMAIN lastAux.calls :
          \E i \in DOMAIN ENGINES :
             /\ HasCredential(i)
             /\ lastAux.calls[k].service = Adapter[ENGINES[i].name]
             /\ IF Usable(JsOr(lastCall.engine, "openai"))
                THEN ENGINES[i].name = JsOr(lastCall.engine, "openai")
                ELSE \A j \in 1..(i - 1) : ~HasCredential(j)

C27_Witness ==
    /\ lastAux.op = "sendMessage"
    /\ lastCall.engine = "OpenAI"
    /\ env = {"OPENAI_API_KEY", "GEMINI_API_KEY"}
    /\ lastAux.calls # <<>>
    /\ lastAux.calls[1].service = "openaiService"
    /\ lastCall.model = "gpt-4o"

\* C28: after the switch-engine command has replied that it switched to X,
\* the stored preference of the user is (X, default model of X), and
\* setUserEngine has returned true only if the stored engine is X.
C28_SwitchStoresRequested ==
    (lastAux.op = "handleUseCommand" /\ lastAux.reply = "switched")
    => /\ \E r \in prefs : /\ r.user_id = lastAux.user
                           /\ r.engine = lastAux.arg
                           /\ r.model = getDefaultModel(lastAux.arg)
       /\ lastAux.result = "true"
             => \E r \in prefs : r.user_id = lastAux.user /\ r.engine = lastAux.arg

\* C29: when the send of a sweep pass fails for a reminder that is not the
\* last of the pass, the pass goes on with the send for the next reminder it
\* read.
C29_FailedSendGoesOn ==
    [][\A t \in Running :
          (DeliveryFailed(t) /\ t.kind = "sweep" /\ Len(t.queue) > 1)
          => CopiesIn([t EXCEPT !.pc = "send", !.queue = Tail(t.queue)], tasks')
                > CopiesIn([t EXCEPT !.pc = "send", !.queue = Tail(t.queue)],
                           tasks)]_vars

C29_Witness ==
    /\ now = 0
    /\ Len(reminders) >= 2
    /\ attempts[1] = 1 /\ errors[1] /\ ~reminders[1].is_triggered
    /\ attempts[2] = 1 /\ ~errors[2]
    /\ \E t \in Running : /\ t.kind = "sweep"
                          /\ t.pc = "mark"
                          /\ Head(t.queue).id = 2

\* C30: for a message from a group chat that names the bot neither in its
\* mentions nor in its body, nothing is done: no command, nothing persisted,
\* no AI call, no reply.
C30_UnmentionedGroupIgnored ==
    ( /\ handled.from # NoVal
      /\ Suffix(handled.from) = "@g.us"
      /\ BotId \notin handled.mentionedIds
      /\ \A k \in DOMAIN handled.body :
            ToLowerCase(handled.body[k]) \notin {"@bot", "hey bot", "@15147715108"} )
    => handled.effects = {}

C30_Witness ==
    /\ handled.from = "777@g.us"
    /\ handled.mentionedIds = {OtherId}
    /\ handled.body = <<"!help", "hello">>
    /\ ~handled.isStatus
    /\ handled.effects = {}

====
